---- MODULE Spec2Model ----
(***************************************************************************)
(* A model of ranges.datetimerange.DatetimeRange.                          *)
(*                                                                         *)
(* Datetimes are whole seconds counted from an epoch and timedeltas are    *)
(* whole seconds, both integers.  For whole-second timedeltas              *)
(* total_seconds() is an exactly representable float, so the float modulo  *)
(* of __contains__ is the exact Python modulo modelled by PyMod.           *)
(*                                                                         *)
(* A run builds two ranges with the constructor and then applies one       *)
(* operation of the class to them; the value or the exception the          *)
(* operation produces is recorded in res.                                  *)
(***************************************************************************)
EXTENDS Integers, Sequences, FiniteSets, TLC

VARIABLES a, b, pc, op, arg, res

vars == <<a, b, pc, op, arg, res>>

\* Bounds of the model: datetimes are 0..MaxTime, steps are -MaxStep..MaxStep.
MaxTime == 3
MaxStep == 3

Times == 0..MaxTime
StepArgs == (-MaxStep)..MaxStep
Indices == (-(MaxTime + 1))..(MaxTime + 1)

----------------------------------------------------------------------------
\* Values an operation can produce.

None == [kind |-> "none"]
Error(e, m) == [kind |-> "error", err |-> e, msg |-> m]
IntVal(n) == [kind |-> "int", val |-> n]
BoolVal(v) == [kind |-> "bool", val |-> v]
Datetime(t) == [kind |-> "datetime", val |-> t]
Generator(s) == [kind |-> "generator", items |-> s]

IsError(v) == v.kind = "error"
IsRange(v) == v.kind = "range"

----------------------------------------------------------------------------
\* Host arithmetic (Python int / timedelta semantics).

Abs(n) == IF n < 0 THEN -n ELSE n
Max(x, y) == IF y > x THEN y ELSE x
Min(x, y) == IF y < x THEN y ELSE x
\* max(steps, key=abs) / min(steps, key=abs): the first extremal element wins.
MaxAbs(x, y) == IF Abs(y) > Abs(x) THEN y ELSE x
MinAbs(x, y) == IF Abs(y) < Abs(x) THEN y ELSE x

\* timedelta // timedelta: floor division, d # 0.
FloorDiv(n, d) == IF d > 0 THEN n \div d ELSE (-n) \div (-d)
\* timedelta % timedelta and float %: the result takes the sign of d, d # 0.
PyMod(n, d) == n - d * FloorDiv(n, d)

\* Stand-ins for the host's hash() of a datetime and of a timedelta
\* (injective on the model's values) and for int ^ int.
HashDatetime(t) == t
HashTimedelta(d) == 2 * Abs(d) + (IF d < 0 THEN 1 ELSE 0)
RECURSIVE BitXor(_, _)
BitXor(x, y) ==
    IF x = 0 THEN y
    ELSE IF y = 0 THEN x
    ELSE (((x % 2) + (y % 2)) % 2) + 2 * BitXor(x \div 2, y \div 2)

----------------------------------------------------------------------------
\* DatetimeRange

\* __init__
DatetimeRange(start, stop, step) ==
    IF step = 0
    THEN Error("ValueError", "step must be non-null")
    ELSE [kind |-> "range", start |-> start, stop |-> stop, step |-> step,
          len |-> Max(0, FloorDiv(stop - start, step))]

\* _ordering
Ordering(r) == IF r.step > 0 THEN "ASCENDING" ELSE "DESCENDING"

\* __len__
Len_(r) == r.len

\* __getitem__
RECURSIVE GetItem(_, _)
GetItem(r, i) ==
    IF Abs(i) >= Len_(r)
    THEN Error("IndexError", "index out of range")
    ELSE IF i < 0
    THEN GetItem(r, Len_(r) - i)
    ELSE Datetime(r.start + i * r.step)

\* __hash__
Hash(r) ==
    IF Len_(r) = 0 THEN IntVal(0)
    ELSE IF Len_(r) = 1 THEN IntVal(HashDatetime(r.start))
    ELSE LET last == GetItem(r, -1) IN
         IF IsError(last) THEN last
         ELSE IntVal(BitXor(BitXor(HashDatetime(r.start), HashDatetime(last.val)),
                         HashTimedelta(r.step)))

\* __eq__
Eq(r, o) ==
    IF Len_(r) # Len_(o) THEN BoolVal(FALSE)
    ELSE IF Len_(r) = 0 THEN BoolVal(TRUE)
    ELSE IF Len_(r) = 1 THEN BoolVal(r.start = o.start)
    ELSE IF r.start # o.start THEN BoolVal(FALSE)
    ELSE LET rl == GetItem(r, -1) IN
         IF IsError(rl) THEN rl
         ELSE LET ol == GetItem(o, -1) IN
              IF IsError(ol) THEN ol ELSE BoolVal(rl.val = ol.val)

\* __contains__
Contains(r, dt) ==
    IF Ordering(r) = "ASCENDING" /\ ~(r.start <= dt /\ dt < r.stop) THEN FALSE
    ELSE IF Ordering(r) = "DESCENDING" /\ ~(r.start >= dt /\ dt > r.stop) THEN FALSE
    ELSE PyMod(dt - r.start, r.step) = 0

\* __and__
And(r, o) ==
    IF Ordering(r) # Ordering(o)
    THEN Error("ValueError", "different orderings")
    ELSE IF PyMod(MaxAbs(r.step, o.step), MinAbs(r.step, o.step)) # 0
    THEN Error("ValueError", "steps are not multiples of one another")
    ELSE IF Ordering(r) = "ASCENDING"
    THEN DatetimeRange(Max(r.start, o.start), Min(r.stop, o.stop), Max(r.step, o.step))
    ELSE DatetimeRange(Min(r.start, o.start), Max(r.stop, o.stop), Min(r.step, o.step))

\* __or__
Or(r, o) ==
    IF PyMod(MaxAbs(r.step, o.step), MinAbs(r.step, o.step)) # 0
    THEN Error("ValueError", "steps are not multiples of one another")
    ELSE IF r.step # o.step
    THEN IF r.start # o.start \/ r.stop # o.stop
         THEN Error("ValueError", "steps are different and boundaries don't match")
         ELSE DatetimeRange(r.start, r.stop, MinAbs(r.step, o.step))
    ELSE IF (IF Ordering(r) = "ASCENDING"
             THEN Min(r.stop, o.stop) < Max(r.start, o.start)
             ELSE Min(r.start, o.start) < Max(r.stop, o.stop))
    THEN Error("ValueError", "non-overlapping and non-contiguous")
    ELSE IF Ordering(r) = "ASCENDING"
    THEN DatetimeRange(Min(r.start, o.start), Max(r.stop, o.stop), r.step)
    ELSE DatetimeRange(Max(r.start, o.start), Min(r.stop, o.stop), r.step)

\* isdisjoint, with the failure of & swallowed
IsDisjointSwallowing(r, o) ==
    LET i == And(r, o) IN
    IF IsError(i) THEN BoolVal(TRUE) ELSE BoolVal(Len_(i) = 0)

\* isdisjoint
IsDisjoint(r, o) ==
    LET i == And(r, o) IN
    IF IsError(i) THEN i ELSE BoolVal(Len_(i) = 0)

\* __le__
Le(r, o) ==
    LET u == Or(r, o) IN
    IF IsError(u)
    THEN (IF u.err = "ValueError" THEN BoolVal(FALSE) ELSE u)
    ELSE Eq(u, o)

\* The part of __sub__ reached when the steps of the minuend and of the
\* restricted subtrahend differ.
SubDifferentSteps(r, o) ==
    LET ol == GetItem(o, -1) IN
    IF IsError(ol) THEN ol
    ELSE IF r.start = ol.val
    THEN DatetimeRange(r.start + r.step, r.stop, r.step)
    ELSE LET rl == GetItem(r, -1) IN
         IF IsError(rl) THEN rl
         ELSE IF rl.val = o.start
         THEN DatetimeRange(r.start, rl.val, r.step)
         ELSE IF r.step * 2 # o.step
         THEN Error("ValueError", "subtrahend's step is not twice the minuend's")
         ELSE IF r.start = o.start /\ rl.val = ol.val
         THEN DatetimeRange(r.start + r.step, rl.val, o.step)
         ELSE IF r.start + r.step = o.start /\ rl.val = ol.val + r.step
         THEN DatetimeRange(r.start, r.stop, o.step)
         ELSE Error("ValueError", "boundaries are not sufficiently aligned")

\* __sub__ with the boundaries of the first equal-step result mixed up
SubWrongBoundary(r, other) ==
    LET o == And(other, r) IN
    IF IsError(o) THEN o
    ELSE IF Len_(o) = 0 THEN r
    ELSE IF r.step = o.step
    THEN IF r.start = o.start
         THEN DatetimeRange(o.start, r.stop, r.step)
         ELSE IF r.stop = o.stop
         THEN DatetimeRange(r.start, o.start, r.step)
         ELSE Error("ValueError", "Cannot create a sparse DatetimeRange")
    ELSE SubDifferentSteps(r, o)

\* __sub__
Sub(r, other) ==
    LET o == And(other, r) IN
    IF IsError(o) THEN o
    ELSE IF Len_(o) = 0 THEN r
    ELSE IF r.step = o.step
    THEN IF r.start = o.start
         THEN DatetimeRange(o.stop, r.stop, r.step)
         ELSE IF r.stop = o.stop
         THEN DatetimeRange(r.start, o.start, r.step)
         ELSE Error("ValueError", "Cannot create a sparse DatetimeRange")
    ELSE SubDifferentSteps(r, o)

\* __xor__
Xor(r, o) ==
    LET l == Sub(r, o) IN
    IF IsError(l) THEN l
    ELSE LET m == Sub(o, r) IN
         IF IsError(m) THEN m ELSE Or(l, m)

\* Sequence.__iter__, inherited: self[0], self[1], ... until IndexError.
RECURSIVE IterFrom(_, _)
IterFrom(r, i) ==
    LET v == GetItem(r, i) IN
    IF IsError(v) THEN <<>> ELSE <<v.val>> \o IterFrom(r, i + 1)

Iter(r) == Generator(IterFrom(r, 0))

\* Sequence.__reversed__, inherited: self[i] for i in reversed(range(len(self))).
Reversed(r) ==
    Generator([k \in 1..Len_(r) |-> GetItem(r, Len_(r) - k).val])

\* len(x) of a value: defined for a range, TypeError for a generator.
LenOf(v) ==
    IF IsRange(v) THEN IntVal(Len_(v))
    ELSE Error("TypeError", "object has no len()")

----------------------------------------------------------------------------
\* The state machine.

Init ==
    /\ a = None
    /\ b = None
    /\ pc = "new_a"
    /\ op = "none"
    /\ arg = 0
    /\ res = None

\* a = DatetimeRange(start, stop, step)
NewA ==
    /\ pc = "new_a"
    /\ \E start \in Times, stop \in Times, step \in StepArgs :
         LET r == DatetimeRange(start, stop, step) IN
         /\ op' = "new"
         /\ res' = r
         /\ IF IsError(r)
            THEN a' = a /\ pc' = pc
            ELSE a' = r /\ pc' = "new_b"
    /\ UNCHANGED <<b, arg>>

\* b = DatetimeRange(start, stop, step)
NewB ==
    /\ pc = "new_b"
    /\ \E start \in Times, stop \in Times, step \in StepArgs :
         LET r == DatetimeRange(start, stop, step) IN
         /\ op' = "new"
         /\ res' = r
         /\ IF IsError(r)
            THEN b' = b /\ pc' = pc
            ELSE b' = r /\ pc' = "ready"
    /\ UNCHANGED <<a, arg>>

\* An operation applied to the two ranges returns v (a value or an exception).
Return(o, x, v) ==
    /\ pc' = "done"
    /\ op' = o
    /\ arg' = x
    /\ res' = v
    /\ UNCHANGED <<a, b>>

\* len(a)
DoLen ==
    /\ pc = "ready"
    /\ Return("len", 0, IntVal(Len_(a)))

\* a[i]
DoGetItem ==
    /\ pc = "ready"
    /\ \E i \in Indices : Return("getitem", i, GetItem(a, i))

\* dt in a
DoContains ==
    /\ pc = "ready"
    /\ \E dt \in Times : Return("contains", dt, BoolVal(Contains(a, dt)))

\* hash(a)
DoHash ==
    /\ pc = "ready"
    /\ Return("hash", 0, Hash(a))

\* a == b
DoEq ==
    /\ pc = "ready"
    /\ Return("eq", 0, Eq(a, b))

\* a & b
DoAnd ==
    /\ pc = "ready"
    /\ Return("and", 0, And(a, b))

\* a | b
DoOr ==
    /\ pc = "ready"
    /\ Return("or", 0, Or(a, b))

\* a.isdisjoint(b)
DoIsDisjoint ==
    /\ pc = "ready"
    /\ Return("isdisjoint", 0, IsDisjoint(a, b))

\* a <= b
DoLe ==
    /\ pc = "ready"
    /\ Return("le", 0, Le(a, b))

\* a - b
DoSub ==
    /\ pc = "ready"
    /\ Return("sub", 0, Sub(a, b))

\* a ^ b
DoXor ==
    /\ pc = "ready"
    /\ Return("xor", 0, Xor(a, b))

\* iter(a)
DoIter ==
    /\ pc = "ready"
    /\ Return("iter", 0, Iter(a))

\* reversed(a)
DoReversed ==
    /\ pc = "ready"
    /\ Return("reversed", 0, Reversed(a))

Next ==
    \/ NewA
    \/ NewB
    \/ DoLen
    \/ DoGetItem
    \/ DoContains
    \/ DoHash
    \/ DoEq
    \/ DoAnd
    \/ DoOr
    \/ DoIsDisjoint
    \/ DoLe
    \/ DoSub
    \/ DoXor
    \/ DoIter
    \/ DoReversed

Spec == Init /\ [][Next]_vars

Done(o) == pc = "done" /\ op = o

TypeOK ==
    /\ pc \in {"new_a", "new_b", "ready", "done"}
    /\ (pc # "new_a") => (IsRange(a) /\ a.step # 0)
    /\ (pc \in {"ready", "done"}) => (IsRange(b) /\ b.step # 0)

----------------------------------------------------------------------------
\* Properties.

\* The last element a non-empty range r realizes, start + (len - 1) * step.
LastOf(r) == r.start + (Len_(r) - 1) * r.step

\* One step magnitude is an exact multiple of the other.
StepsAreMultiples(x, y) ==
    \E k \in 1..Max(Abs(x), Abs(y)) : Abs(x) = k * Abs(y) \/ Abs(y) = k * Abs(x)

\* C1: a range of length 0 contains no timestamp: whenever dt in a is
\* evaluated for a range a with len(a) = 0, the answer is False.
C1_EmptyContainsNothing ==
    (Done("contains") /\ Len_(a) = 0) => res = BoolVal(FALSE)

\* C2: negative indexing: for a non-empty range a and 1 <= k <= len(a),
\* a[-k] succeeds and is the element a[len(a) - k] = start + (len - k) * step.
C2_NegativeIndexing ==
    (Done("getitem") /\ Len_(a) > 0 /\ arg < 0 /\ -arg <= Len_(a))
        => res = Datetime(a.start + (Len_(a) + arg) * a.step)

\* C3: self-intersection: for every range r, r & r succeeds and
\* (r & r) == r evaluates to True.
C3_SelfIntersection ==
    (Done("and") /\ a = b) => (IsRange(res) /\ Eq(res, a) = BoolVal(TRUE))

\* C4: a <= b never fails: it is True iff a | b succeeds and equals b, and
\* False whenever a | b fails.
C4_LeIsTotal ==
    Done("le") =>
        /\ res.kind = "bool"
        /\ res.val = (IsRange(Or(a, b)) /\ Eq(Or(a, b), b) = BoolVal(TRUE))

\* C5 as stated: isdisjoint never fails: it is True when a & b would fail
\* (different directions, or steps that are not multiples of one another)
\* and len(a & b) == 0 otherwise.
C5_IsDisjointNeverFails ==
    Done("isdisjoint") =>
        /\ res.kind = "bool"
        /\ res.val = (IsError(And(a, b)) \/ Len_(And(a, b)) = 0)

\* C5 as amended: a.isdisjoint(b) fails with the ValueError of a & b when
\* the directions differ or when neither step is a multiple of the other;
\* otherwise it returns whether a & b is empty, that is whether the tighter
\* interval (max of the starts to min of the stops when ascending, min of
\* the starts to max of the stops when descending) is shorter than the
\* larger of the two step magnitudes.
C5_IsDisjointPropagates ==
    Done("isdisjoint") =>
        IF (a.step > 0) # (b.step > 0)
        THEN res = Error("ValueError", "different orderings")
        ELSE IF ~StepsAreMultiples(a.step, b.step)
        THEN res = Error("ValueError", "steps are not multiples of one another")
        ELSE IF a.step > 0
        THEN res = BoolVal(Min(a.stop, b.stop) - Max(a.start, b.start)
                             < Max(Abs(a.step), Abs(b.step)))
        ELSE res = BoolVal(Min(a.start, b.start) - Max(a.stop, b.stop)
                             < Max(Abs(a.step), Abs(b.step)))

\* C5 witness: isdisjoint was evaluated on two ranges of opposite
\* directions and raised.
C5_Witness ==
    /\ Done("isdisjoint")
    /\ a.step > 0
    /\ b.step < 0
    /\ Len_(a) > 0
    /\ Len_(b) > 0
    /\ IsError(res)

\* C6: hash(a) is computed without failure for every range, and ranges that
\* compare equal hash identically.
C6_HashAgreesWithEq ==
    Done("hash") =>
        /\ res.kind = "int"
        /\ Hash(b).kind = "int"
        /\ (Eq(a, b) = BoolVal(TRUE) => Hash(b) = res)

\* C7: reversed(a) is a DatetimeRange of the same length and of step -a.step
\* whose first element is a's last element and whose last element is
\* a.start when a is non-empty.
C7_Reversal ==
    Done("reversed") =>
        /\ IsRange(res)
        /\ LenOf(res) = IntVal(Len_(a))
        /\ res.step = -a.step
        /\ (Len_(a) > 0 =>
              /\ GetItem(res, 0) = Datetime(LastOf(a))
              /\ GetItem(res, -1) = Datetime(a.start))

\* C8: difference with equal steps.  With bp = b & a: if bp is empty, a - b
\* is a; otherwise, when a.step = bp.step, a - b is (bp.stop, a.stop, a.step)
\* if a.start = bp.start, else (a.start, bp.start, a.step) if
\* a.stop = bp.stop, else a ValueError (sparse range) and no range.
C8_DifferenceEqualSteps ==
    (Done("sub") /\ IsRange(And(b, a))) =>
        LET bp == And(b, a) IN
        IF Len_(bp) = 0 THEN res = a
        ELSE (a.step = bp.step) =>
            IF a.start = bp.start
            THEN /\ IsRange(res)
                 /\ <<res.start, res.stop, res.step>> = <<bp.stop, a.stop, a.step>>
            ELSE IF a.stop = bp.stop
            THEN /\ IsRange(res)
                 /\ <<res.start, res.stop, res.step>> = <<a.start, bp.start, a.step>>
            ELSE res = Error("ValueError", "Cannot create a sparse DatetimeRange")

\* C8 witness: a prefix of a was subtracted (equal steps, equal starts, a
\* non-empty intersection) and a non-empty remainder came back.
C8_Witness ==
    /\ Done("sub")
    /\ IsRange(And(b, a))
    /\ Len_(And(b, a)) > 0
    /\ a.step = And(b, a).step
    /\ a.start = And(b, a).start
    /\ IsRange(res)
    /\ Len_(res) > 0

\* C9: whenever a & b succeeds, it contains exactly the timestamps that both
\* a and b contain.
C9_IntersectionIsSetIntersection ==
    (Done("and") /\ IsRange(res)) =>
        \A dt \in Times : Contains(res, dt) = (Contains(a, dt) /\ Contains(b, dt))

\* C10: whenever a | b succeeds, b | a succeeds too and a | b contains
\* exactly the timestamps that a or b contains.
C10_UnionIsSetUnion ==
    (Done("or") /\ IsRange(res)) =>
        /\ IsRange(Or(b, a))
        /\ \A dt \in Times : Contains(res, dt) = (Contains(a, dt) \/ Contains(b, dt))

====
